---- MODULE Spec2Model ----
(***************************************************************************)
(* A model of pyxml2pdf's Event (src/pyxml2pdf/Core/events.py) and of the  *)
(* TableStyle it takes its column widths from                              *)
(* (src/PdfVisualisation/TableStyle.py).                                   *)
(*                                                                         *)
(* Python values are modelled as follows.                                  *)
(*   str            a TLA+ string                                          *)
(*   Optional[x]    None is <<>>, a value v is <<v>>                       *)
(*   an instance    a function from the names of the attributes that have  *)
(*                  been assigned to their values; reading a name outside  *)
(*                  its domain is Python's AttributeError                  *)
(*   float          an IEEE-754 binary64 number, held exactly as a natural *)
(*                  number of units of 2^-51 (see the section on floats)   *)
(***************************************************************************)
EXTENDS Integers, Sequences, FiniteSets, TLC

\* The bounds of the model.
\* The number of child elements of the xml element an Event is built from.
MaxChildren == 2
\* The number of calls of get_full_row, get_table_row and _init_reduced_row.
MaxCalls == 3
\* The length of the tag list passed to _concatenate_tags_content.
MaxTags == 3
\* The number of add_event calls made on the EventTables.
MaxAdds == 3

VARIABLES
    self,         \* the Event instance: its assigned attributes
    table_style,  \* the TableStyle instance shared by all Events
    last,         \* the most recent call: what was called and how it ended
    ncalls,       \* calls of the three row methods so far
    builds,       \* executions of _init_reduced_row so far
    only_table_rows, \* every call so far was get_table_row with a non-empty title
    first_title,  \* the title passed by the first call of a row method
    init_called,  \* _init_reduced_row has been called from outside the Event
    pending,      \* the arguments of the _concatenate_tags_content call to make
    tables,       \* the EventTable instances, by name
    added         \* the add_event calls made so far: <<table name, row>>

vars == <<self, table_style, last, ncalls, builds, only_table_rows,
          first_title, init_called, pending, tables, added>>

----------------------------------------------------------------------------
(***************************************************************************)
(* Python objects.                                                         *)
(***************************************************************************)
None == <<>>

Some(v) == <<v>>

\* bool(v) of an Optional[str]: None and "" are falsy.
Truthy(v) == v # None /\ v[1] # ""

\* obj.name = value
SetAttr(obj, name, value) == (name :> value) @@ obj

\* hasattr(obj, name)
HasAttr(obj, name) == name \in DOMAIN obj

----------------------------------------------------------------------------
(***************************************************************************)
(* Floats.  Every float of get_column_widths is a double of magnitude at   *)
(* least 2 or a difference of such doubles, hence a multiple of 2^-51.  A  *)
(* float is held as that multiple, a natural number below 2^63 written in  *)
(* three limbs of 21 bits, least significant first.  An arithmetic         *)
(* operation computes the exact result and rounds it to 53 significant     *)
(* bits, ties to even, as IEEE-754 binary64 does.                          *)
(***************************************************************************)
Limb == 2^21

Pow2(n) == 2^n

BigZero == <<0, 0, 0>>

BigAdd(a, b) ==
    LET s0 == a[1] + b[1]
        s1 == a[2] + b[2] + (s0 \div Limb)
        s2 == a[3] + b[3] + (s1 \div Limb)
    IN  <<s0 % Limb, s1 % Limb, s2>>

\* a - b for a >= b
BigSub(a, b) ==
    LET d0 == a[1] - b[1]
        c0 == IF d0 < 0 THEN 1 ELSE 0
        d1 == a[2] - b[2] - c0
        c1 == IF d1 < 0 THEN 1 ELSE 0
    IN  <<d0 + c0 * Limb, d1 + c1 * Limb, a[3] - b[3] - c1>>

\* n * a for a small natural number n
BigMulSmall(n, a) ==
    LET p0 == n * a[1]
        p1 == n * a[2] + (p0 \div Limb)
        p2 == n * a[3] + (p1 \div Limb)
    IN  <<p0 % Limb, p1 % Limb, p2>>

RECURSIVE BitsOf(_)
BitsOf(n) == IF n = 0 THEN 0 ELSE 1 + BitsOf(n \div 2)

BitLength(a) ==
    IF a[3] # 0 THEN 42 + BitsOf(a[3])
    ELSE IF a[2] # 0 THEN 21 + BitsOf(a[2])
    ELSE BitsOf(a[1])

\* The double nearest to the exact value a (round half to even).
RoundToDouble(a) ==
    LET d    == BitLength(a) - 53
        rem  == a[1] % Pow2(d)
        odd  == (a[1] \div Pow2(d)) % 2 = 1
        down == BigSub(a, <<rem, 0, 0>>)
        up   == BigAdd(down, <<Pow2(d), 0, 0>>)
    IN  IF d <= 0 THEN a
        ELSE IF 2 * rem > Pow2(d) \/ (2 * rem = Pow2(d) /\ odd) THEN up
        ELSE down

\* int * float
FMul(n, x) == RoundToDouble(BigMulSmall(n, x))

\* float + float
FAdd(x, y) == RoundToDouble(BigAdd(x, y))

\* float - float (x >= y)
FSub(x, y) == RoundToDouble(BigSub(x, y))

\* The builtin sum of a list of floats: additions from the left, starting at 0.
RECURSIVE FSum(_)
FSum(xs) ==
    IF xs = <<>> THEN BigZero
    ELSE FAdd(FSum(SubSeq(xs, 1, Len(xs) - 1)), xs[Len(xs)])

\* The sum of a list of floats as a real number, without rounding.
RECURSIVE ExactSum(_)
ExactSum(xs) ==
    IF xs = <<>> THEN BigZero
    ELSE BigAdd(ExactSum(SubSeq(xs, 1, Len(xs) - 1)), xs[Len(xs)])

\* reportlab's mm, the double 72.0 / 2.54 * 0.1 = 0x1.6ad5ab56ad5acp+1.
mm == <<710060, 710059, 1451>>

----------------------------------------------------------------------------
(***************************************************************************)
(* TableStyle.                                                             *)
(***************************************************************************)
\* TableStyle.__init__: self.table_width = 178 * mm
TableStyle == [table_width |-> FMul(178, mm)]

\* TableStyle.get_column_widths
get_column_widths(style) ==
    LET column_widths == <<FMul(8, mm), FMul(13, mm), FMul(19, mm), FMul(18, mm),
                           FMul(1, mm), FMul(18, mm), FMul(48, mm)>>
    IN  [column_widths EXCEPT ![5] =
            FSub(FSub(style.table_width, FSum(SubSeq(column_widths, 1, 4))),
                 FSum(SubSeq(column_widths, 6, 7)))]

\* get_column_widths of the one TableStyle the program builds, computed once.
column_widths_of == [style \in {TableStyle} |-> get_column_widths(style)]

----------------------------------------------------------------------------
(***************************************************************************)
(* Strings and xml elements.  An element is the sequence of its children,  *)
(* each a record [tag, text] whose text is an Optional[str].               *)
(***************************************************************************)
\* The least index at which sep occurs in s, 0 when it does not (str.find + 1).
Find(s, sep) ==
    LET hits == {i \in 1..(Len(s) - Len(sep) + 1) :
                    SubSeq(s, i, i + Len(sep) - 1) = sep}
    IN  IF hits = {} THEN 0
        ELSE CHOOSE i \in hits : \A j \in hits : i <= j

\* str.split(sep) for a non-empty sep
RECURSIVE split(_, _)
split(s, sep) ==
    LET i == Find(s, sep)
    IN  IF i = 0 THEN <<s>>
        ELSE <<SubSeq(s, 1, i - 1)>>
             \o split(SubSeq(s, i + Len(sep), Len(s)), sep)

\* Element.findtext(tag): the text of the first child with this tag ("" when
\* that child has no text), None when there is no such child.
RECURSIVE findtext(_, _)
findtext(children, tag) ==
    IF children = <<>> THEN None
    ELSE IF Head(children).tag = tag
         THEN (IF Head(children).text = None THEN Some("")
               ELSE Head(children).text)
         ELSE findtext(Tail(children), tag)

----------------------------------------------------------------------------
(***************************************************************************)
(* Event.                                                                  *)
(***************************************************************************)
\* The default of _concatenate_tags_content's parameter separator.
DefaultSeparator == " - "

\* The loop of _concatenate_tags_content, children_text being its variable.
RECURSIVE concatenate_loop(_, _, _, _)
concatenate_loop(obj, event_subelements, separator, children_text) ==
    IF event_subelements = <<>> THEN children_text
    ELSE LET child_text == findtext(obj._children, Head(event_subelements))
         IN  concatenate_loop(obj, Tail(event_subelements), separator,
                 IF Truthy(child_text)
                 THEN (IF children_text # ""
                       THEN children_text \o separator \o child_text[1]
                       ELSE child_text[1])
                 ELSE children_text)

\* A variant that does not skip a field without text: it joins the text of
\* every named field, "" for an absent or empty one.
RECURSIVE concatenate_all_loop(_, _, _, _)
concatenate_all_loop(obj, event_subelements, separator, children_text) ==
    IF event_subelements = <<>> THEN children_text
    ELSE LET child_text == findtext(obj._children, Head(event_subelements))
             text == IF Truthy(child_text) THEN child_text[1] ELSE ""
         IN  concatenate_all_loop(obj, Tail(event_subelements), separator,
                 IF children_text # ""
                 THEN children_text \o separator \o text
                 ELSE text)

_concatenate_tags_content_keeps_empty(obj, event_subelements, separator) ==
    concatenate_all_loop(obj, event_subelements, separator, "")

\* Event._concatenate_tags_content
_concatenate_tags_content(obj, event_subelements, separator) ==
    concatenate_loop(obj, event_subelements, separator, "")

\* A variant that keeps only the categories that have a name.
_init_categories_drops_empty(obj) ==
    LET categories == _concatenate_tags_content(obj, <<"Kategorie">>,
                                                DefaultSeparator)
        named(category) == category # ""
    IN  SetAttr(obj, "_categories", SelectSeq(split(categories, ", "), named))

\* Event._init_categories
_init_categories(obj) ==
    LET categories == _concatenate_tags_content(obj, <<"Kategorie">>,
                                                DefaultSeparator)
    IN  SetAttr(obj, "_categories", split(categories, ", "))

\* Event._init_regular_time
_init_regular_time(obj) ==
    LET weekday    == _concatenate_tags_content(obj, <<"Wochentag">>, DefaultSeparator)
        time       == _concatenate_tags_content(obj, <<"Uhrzeit">>, DefaultSeparator)
        season     == _concatenate_tags_content(obj, <<"Saison">>, DefaultSeparator)
        exceptions == _concatenate_tags_content(obj, <<"Ausnahmen">>, DefaultSeparator)
        t0 == IF weekday # "" THEN weekday \o "<br/>" ELSE ""
        t1 == IF time # "" THEN t0 \o time \o "<br/>" ELSE t0
        t2 == IF season # "" THEN t1 \o season \o "<br/>" ELSE t1
        t3 == IF exceptions # "" THEN t2 \o exceptions ELSE t2
    IN  SetAttr(obj, "_regular_time", t3)

\* reportlab's Paragraph(text, style)
Paragraph(text, style) == [text |-> text, style |-> style]

\* TableBuilder.create_fixedwidth_table: a reportlab Table of the rows given,
\* with the column widths of the table style.
create_fixedwidth_table(style, data) ==
    [_cellvalues |-> data,
     _nrows      |-> Len(data),
     _ncols      |-> Len(data[1]),
     _colWidths  |-> column_widths_of[style]]

\* A variant that leaves the column of the responsible person out.
_init_full_row_six_columns(obj, style) ==
    LET table_columns == <<
            Paragraph(_concatenate_tags_content(obj, <<"Bezeichnung">>,
                                                DefaultSeparator), obj._style),
            Paragraph(obj._regular_time, obj._style),
            Paragraph(obj._region, obj._style),
            Paragraph(_concatenate_tags_content(obj, <<"Terminbeschreibung">>,
                                                DefaultSeparator), obj._style),
            Paragraph(_concatenate_tags_content(obj, <<"Zielgruppe">>,
                                                DefaultSeparator), obj._style),
            Paragraph(_concatenate_tags_content(obj, <<"Voraussetzungen">>,
                                                DefaultSeparator), obj._style) >>
    IN  SetAttr(obj, "_full_row",
                create_fixedwidth_table(style, <<table_columns>>))

\* Event._init_full_row
_init_full_row(obj, style) ==
    LET table_columns == <<
            Paragraph(_concatenate_tags_content(obj, <<"Bezeichnung">>,
                                                DefaultSeparator), obj._style),
            Paragraph(obj._regular_time, obj._style),
            Paragraph(obj._region, obj._style),
            Paragraph(_concatenate_tags_content(obj, <<"Terminbeschreibung">>,
                                                DefaultSeparator), obj._style),
            Paragraph(_concatenate_tags_content(obj, <<"Zielgruppe">>,
                                                DefaultSeparator), obj._style),
            Paragraph(_concatenate_tags_content(obj, <<"Voraussetzungen">>,
                                                DefaultSeparator), obj._style),
            Paragraph(obj._responsible, obj._style) >>
    IN  SetAttr(obj, "_full_row",
                create_fixedwidth_table(style, <<table_columns>>))

\* Event.__init__: the attributes of a new Event built from the xml element with
\* these children.
Event(children, style) ==
    LET s0 == [_children |-> children, _style |-> "Normal"]
        s1 == _init_categories(s0)
        s2 == SetAttr(s1, "_type",
                      _concatenate_tags_content(s1, <<"Kursart">>, DefaultSeparator))
        s3 == SetAttr(s2, "_region",
                      _concatenate_tags_content(s2, <<"Ort">>, DefaultSeparator))
        s4 == SetAttr(s3, "_responsible",
                      _concatenate_tags_content(s3, <<"Leiter">>, DefaultSeparator))
        s5 == _init_regular_time(s4)
        s6 == SetAttr(s5, "_date", s5._regular_time)
    IN  _init_full_row(s6, style)

\* A variant that builds nothing.
_init_reduced_row_skipped(obj, subtable_title) == obj

\* A variant that builds the row the docstring describes: a brief description
\* with a reference to the subtable holding the full row.
_init_reduced_row_reference(obj, subtable_title) ==
    LET title == IF Truthy(subtable_title) THEN subtable_title[1] ELSE ""
        full  == obj._full_row._cellvalues[1]
        brief == [full EXCEPT ![4] = Paragraph("Mehr Infos unter " \o title,
                                               obj._style)]
    IN  SetAttr(obj, "_reduced_row",
                [obj._full_row EXCEPT !._cellvalues = <<brief>>])

\* Event._init_reduced_row
_init_reduced_row(obj, subtable_title) ==
    SetAttr(obj, "_reduced_row", obj._full_row)

\* The parameter subtable_title of get_full_row as Python binds it: the first
\* positional argument, else the keyword argument, else the default None.
BindSubtableTitle(args, kwargs) ==
    IF Len(args) > 0 THEN args[1]
    ELSE IF Len(kwargs) > 0 THEN kwargs[1][2]
    ELSE None

\* A variant that does not store the title it is given.
get_full_row_forgets_title(obj, subtable_title) ==
    [self   |-> obj,
     warned |-> ~Truthy(subtable_title) /\ ~HasAttr(obj, "_subtable_title"),
     ret    |-> obj._full_row]

\* A variant that stores a title only while none is stored.
get_full_row_keeps_first(obj, subtable_title) ==
    IF Truthy(subtable_title) /\ ~HasAttr(obj, "_subtable_title")
    THEN [self   |-> SetAttr(obj, "_subtable_title", subtable_title[1]),
          warned |-> FALSE,
          ret    |-> obj._full_row]
    ELSE [self   |-> obj,
          warned |-> ~Truthy(subtable_title) /\ ~HasAttr(obj, "_subtable_title"),
          ret    |-> obj._full_row]

\* Event.get_full_row as written, before the decorator wraps it.
get_full_row(obj, subtable_title) ==
    IF Truthy(subtable_title)
    THEN [self   |-> SetAttr(obj, "_subtable_title", subtable_title[1]),
          warned |-> FALSE,
          ret    |-> obj._full_row]
    ELSE [self   |-> obj,
          warned |-> ~HasAttr(obj, "_subtable_title"),
          ret    |-> obj._full_row]

\* The wrapper create_reduced_after_full puts around get_full_row: what callers
\* of Event.get_full_row run.  args[0] of an empty args is an IndexError, which
\* leaves the wrapper after get_full_row has run.
execute_get_full_and_init_reduced_row(obj, args, kwargs) ==
    LET inner == get_full_row(obj, BindSubtableTitle(args, kwargs))
    IN  IF Len(args) = 0
        THEN [self   |-> inner.self,
              warned |-> inner.warned,
              ret    |-> None,
              exc    |-> "IndexError",
              builds |-> 0]
        ELSE [self   |-> _init_reduced_row(inner.self, args[1]),
              warned |-> inner.warned,
              ret    |-> Some(inner.ret),
              exc    |-> "",
              builds |-> 1]

\* A variant that asks for the full row on every call.
get_table_row_always_full(obj, subtable_title) ==
    execute_get_full_and_init_reduced_row(obj, <<subtable_title>>, <<>>)

\* Event.get_table_row
get_table_row(obj, subtable_title) ==
    IF ~HasAttr(obj, "_reduced_row")
    THEN execute_get_full_and_init_reduced_row(obj, <<subtable_title>>, <<>>)
    ELSE [self   |-> obj,
          warned |-> FALSE,
          ret    |-> Some(obj._reduced_row),
          exc    |-> "",
          builds |-> 0]

----------------------------------------------------------------------------
(***************************************************************************)
(* EventTable.  The EventTables are held by name, and add_event is given   *)
(* all of them, for an instance shares no list with another only as long   *)
(* as add_event appends to the list of its own instance.                   *)
(***************************************************************************)
\* EventTable.__init__
EventTable(name, locations, activities) ==
    [_elements   |-> <<>>,
     _styles     |-> <<>>,
     _name       |-> name,
     _locations  |-> locations,
     _activities |-> activities]

\* A variant whose instances share one list of elements.
add_event_shared(all_tables, name, event) ==
    [n \in DOMAIN all_tables |->
        [all_tables[n] EXCEPT !._elements = Append(@, event)]]

\* EventTable.add_event, called on the table of this name
add_event(all_tables, name, event) ==
    [all_tables EXCEPT ![name]._elements = Append(@, event)]

\* EventTable.get_elements
get_elements(table) == table._elements

----------------------------------------------------------------------------
(***************************************************************************)
(* The inputs of the model.                                                *)
(***************************************************************************)
\* The xml elements with at most MaxChildren children, each child one of pool.
Elements(pool) == UNION {[1..n -> pool] : n \in 0..MaxChildren}

\* The elements the Events are built from when the row methods are called.
EventRecords ==
    Elements([tag : {"Kategorie", "Bezeichnung"}, text : {None, Some("A, B")}])

\* The elements _concatenate_tags_content is called on: a text may be the
\* separator itself.
ConcatRecords ==
    Elements([tag : {"Bezeichnung", "Ort"},
              text : {None, Some("A"), Some("B"), Some(" - ")}])

\* The titles of the subtables asking for a row, and what a caller may pass.
Titles == {"Table A", "Table B"}

TitleValues == {None, Some("")} \cup {Some(t) : t \in Titles}

\* The calls of get_full_row: the title as the positional argument, as the
\* keyword argument, or not at all.
FullRowCalls ==
    {[args |-> <<v>>, kwargs |-> <<>>] : v \in TitleValues}
    \cup {[args |-> <<>>, kwargs |-> << <<"subtable_title", v>> >>] :
             v \in TitleValues}
    \cup {[args |-> <<>>, kwargs |-> <<>>]}

\* The calls of _concatenate_tags_content: a list of tags, one of which no
\* modelled element has, with or without a separator.
ConcatTags == {"Bezeichnung", "Ort", "Leiter"}

Separators == {", "}

ConcatCalls ==
    LET lists == UNION {[1..n -> ConcatTags] : n \in 0..MaxTags}
    IN  {<<l>> : l \in lists} \cup {<<l, sep>> : l \in lists, sep \in Separators}

\* The rows handed to add_event: the full rows of two Events.
TableRows ==
    {Event(<<[tag |-> "Bezeichnung", text |-> Some(t)]>>, TableStyle)._full_row :
        t \in {"A", "B"}}

\* No call made yet.
NoCall ==
    [op |-> "", args |-> <<>>, kwargs |-> <<>>, ret |-> None, exc |-> "",
     warned |-> FALSE]

----------------------------------------------------------------------------
(***************************************************************************)
(* The state machine: one Event, built from an xml element, and the calls  *)
(* made on it.                                                             *)
(***************************************************************************)
Construct(records) ==
    /\ table_style = TableStyle
    /\ \E children \in records : self = Event(children, TableStyle)
    /\ last = NoCall
    /\ ncalls = 0
    /\ builds = 0
    /\ only_table_rows = TRUE
    /\ first_title = None
    /\ init_called = FALSE
    /\ tables = [name \in Titles |-> EventTable(name, <<>>, <<"hiking">>)]
    /\ added = <<>>

Init ==
    /\ Construct(EventRecords)
    /\ pending = None

\* event.get_full_row(...)
CallGetFullRow ==
    /\ ncalls < MaxCalls
    /\ \E call \in FullRowCalls :
        LET out == execute_get_full_and_init_reduced_row(self, call.args,
                                                         call.kwargs)
        IN  /\ self' = out.self
            /\ last' = [op |-> "get_full_row", args |-> call.args,
                        kwargs |-> call.kwargs, ret |-> out.ret,
                        exc |-> out.exc, warned |-> out.warned]
            /\ builds' = builds + out.builds
            /\ first_title' = IF ncalls = 0
                              THEN BindSubtableTitle(call.args, call.kwargs)
                              ELSE first_title
    /\ ncalls' = ncalls + 1
    /\ only_table_rows' = FALSE
    /\ UNCHANGED <<table_style, init_called, pending, tables, added>>

\* event.get_table_row(subtable_title)
CallGetTableRow ==
    /\ ncalls < MaxCalls
    /\ \E subtable_title \in TitleValues :
        LET out == get_table_row(self, subtable_title)
        IN  /\ self' = out.self
            /\ last' = [op |-> "get_table_row", args |-> <<subtable_title>>,
                        kwargs |-> <<>>, ret |-> out.ret, exc |-> out.exc,
                        warned |-> out.warned]
            /\ builds' = builds + out.builds
            /\ first_title' = IF ncalls = 0 THEN subtable_title ELSE first_title
            /\ only_table_rows' = (only_table_rows /\ Truthy(subtable_title))
    /\ ncalls' = ncalls + 1
    /\ UNCHANGED <<table_style, init_called, pending, tables, added>>

\* event._init_reduced_row(subtable_title), as the tests call it
CallInitReducedRow ==
    /\ ncalls < MaxCalls
    /\ \E subtable_title \in TitleValues :
        /\ self' = _init_reduced_row(self, subtable_title)
        /\ last' = [op |-> "_init_reduced_row", args |-> <<subtable_title>>,
                    kwargs |-> <<>>, ret |-> None, exc |-> "", warned |-> FALSE]
        /\ first_title' = IF ncalls = 0 THEN subtable_title ELSE first_title
    /\ builds' = builds + 1
    /\ ncalls' = ncalls + 1
    /\ only_table_rows' = FALSE
    /\ init_called' = TRUE
    /\ UNCHANGED <<table_style, pending, tables, added>>

\* event._reduced_row, read as the tests read it
ReadReducedRow ==
    /\ last' = [op |-> "_reduced_row", args |-> <<>>, kwargs |-> <<>>,
                ret |-> IF HasAttr(self, "_reduced_row")
                        THEN Some(self._reduced_row) ELSE None,
                exc |-> IF HasAttr(self, "_reduced_row")
                        THEN "" ELSE "AttributeError",
                warned |-> FALSE]
    /\ UNCHANGED <<self, table_style, ncalls, builds, only_table_rows,
                   first_title, init_called, pending, tables, added>>

\* table_style.get_column_widths()
CallGetColumnWidths ==
    /\ last' = [op |-> "get_column_widths", args |-> <<>>, kwargs |-> <<>>,
                ret |-> Some(column_widths_of[table_style]), exc |-> "",
                warned |-> FALSE]
    /\ UNCHANGED <<self, table_style, ncalls, builds, only_table_rows,
                   first_title, init_called, pending, tables, added>>

Next ==
    \/ CallGetFullRow
    \/ CallGetTableRow
    \/ CallInitReducedRow
    \/ ReadReducedRow
    \/ CallGetColumnWidths

Spec == Init /\ [][Next]_vars

(***************************************************************************)
(* _concatenate_tags_content as a function of the element and of its       *)
(* arguments: the arguments are drawn with the element, the one action     *)
(* makes the call.                                                         *)
(***************************************************************************)
InitConcat ==
    /\ Construct(ConcatRecords)
    /\ pending \in {Some(c) : c \in ConcatCalls}

\* event._concatenate_tags_content(event_subelements[, separator])
CallConcatenateTagsContent ==
    /\ pending # None
    /\ LET args == pending[1]
           separator == IF Len(args) > 1 THEN args[2] ELSE DefaultSeparator
       IN  last' = [op |-> "_concatenate_tags_content", args |-> args,
                    kwargs |-> <<>>,
                    ret |-> Some(_concatenate_tags_content(self, args[1],
                                                           separator)),
                    exc |-> "", warned |-> FALSE]
    /\ pending' = None
    /\ UNCHANGED <<self, table_style, ncalls, builds, only_table_rows,
                   first_title, init_called, tables, added>>

NextConcat == CallConcatenateTagsContent

SpecConcat == InitConcat /\ [][NextConcat]_vars

(***************************************************************************)
(* The EventTables: rows are added to them and their elements are read.    *)
(* The Event is the one of the tests, built from an element without        *)
(* children.                                                               *)
(***************************************************************************)
InitTables ==
    /\ Construct({<<>>})
    /\ pending = None

\* table.add_event(event)
CallAddEvent ==
    /\ Len(added) < MaxAdds
    /\ \E name \in DOMAIN tables, event \in TableRows :
        /\ tables' = add_event(tables, name, event)
        /\ added' = Append(added, <<name, event>>)
        /\ last' = [op |-> "add_event", args |-> <<name, event>>,
                    kwargs |-> <<>>, ret |-> None, exc |-> "", warned |-> FALSE]
    /\ UNCHANGED <<self, table_style, ncalls, builds, only_table_rows,
                   first_title, init_called, pending>>

\* table.get_elements()
CallGetElements ==
    /\ \E name \in DOMAIN tables :
        last' = [op |-> "get_elements", args |-> <<name>>, kwargs |-> <<>>,
                 ret |-> Some(get_elements(tables[name])), exc |-> "",
                 warned |-> FALSE]
    /\ UNCHANGED <<self, table_style, ncalls, builds, only_table_rows,
                   first_title, init_called, pending, tables, added>>

NextTables ==
    \/ CallAddEvent
    \/ CallGetElements

SpecTables == InitTables /\ [][NextTables]_vars

----------------------------------------------------------------------------
(***************************************************************************)
(* The properties.                                                         *)
(***************************************************************************)
\* C1: while every call on an Event has been get_table_row with a non-empty
\* title, the first call returns the full row, got from get_full_row, which
\* builds the reduced row; every later call returns the reduced row and builds
\* nothing.
C1_FirstCallFullLaterReduced ==
    (only_table_rows /\ last.op = "get_table_row") =>
        /\ last.exc = ""
        /\ HasAttr(self, "_reduced_row")
        /\ builds = 1
        /\ last.ret = IF ncalls = 1 THEN Some(self._full_row)
                      ELSE Some(self._reduced_row)

\* A second table has asked for its row and got the reduced row.
C1_Witness ==
    /\ only_table_rows
    /\ ncalls >= 2
    /\ last.op = "get_table_row"
    /\ builds = 1
    /\ last.ret = Some(self._reduced_row)

\* C2: while every call on an Event has been get_table_row with a non-empty
\* title, the stored home subtable title is the title of the first call.
C2_HomeIsFirstRequester ==
    (only_table_rows /\ ncalls >= 1) =>
        /\ HasAttr(self, "_subtable_title")
        /\ self._subtable_title = first_title[1]

\* A second table with another name has asked, and the home is still the first.
C2_Witness ==
    /\ only_table_rows
    /\ ncalls >= 2
    /\ last.op = "get_table_row"
    /\ last.args[1] # first_title
    /\ self._subtable_title = first_title[1]

\* C3: under calls of get_full_row and get_table_row alone, the reduced row is
\* built at most once, and it exists only when a home subtable title has been
\* recorded.
C3_ReducedRowBuiltOnceAfterTitle ==
    ~init_called =>
        /\ builds <= 1
        /\ HasAttr(self, "_reduced_row") => HasAttr(self, "_subtable_title")

\* C4: a get_full_row call without a title (omitted, None or empty), on an Event
\* with no title recorded, warns, raises nothing and returns the full row.
C4_UntitledCallWarnsAndReturns ==
    (/\ last.op = "get_full_row"
     /\ ~Truthy(BindSubtableTitle(last.args, last.kwargs))
     /\ ~HasAttr(self, "_subtable_title")) =>
        /\ last.warned
        /\ last.exc = ""
        /\ last.ret = Some(self._full_row)

\* C5: on an Event whose first call passed a non-empty title T that get_full_row
\* recorded as its home before building the reduced row, a get_full_row call
\* that omits the title raises nothing, does not warn, returns the full row and
\* leaves the home title T.
C5_OmittedTitleReusesHome ==
    [][(/\ ~init_called
        /\ HasAttr(self, "_reduced_row")
        /\ HasAttr(self, "_subtable_title")
        /\ first_title = Some(self._subtable_title)
        /\ ncalls' = ncalls + 1
        /\ last'.op = "get_full_row"
        /\ last'.args = <<>>
        /\ last'.kwargs = <<>>)
       => (/\ last'.exc = ""
           /\ ~last'.warned
           /\ last'.ret = Some(self._full_row)
           /\ self'._subtable_title = self._subtable_title)]_vars

(***************************************************************************)
(* What _concatenate_tags_content is to return, stated without its loop.   *)
(***************************************************************************)
\* The text of the field tag of an element: that of its first child with this
\* tag, "" when there is none or when it has no text.
FieldText(children, tag) ==
    LET named == {i \in 1..Len(children) : children[i].tag = tag}
        first == CHOOSE i \in named : \A j \in named : i <= j
    IN  IF named = {} \/ children[first].text = None THEN ""
        ELSE children[first].text[1]

HasText(text) == text # ""

\* The texts of the named fields that have one, in the order of the names.
NamedTexts(children, tags) ==
    SelectSeq([i \in 1..Len(tags) |-> FieldText(children, tags[i])], HasText)

RECURSIVE Join(_, _)
Join(texts, sep) ==
    IF texts = <<>> THEN ""
    ELSE IF Len(texts) = 1 THEN texts[1]
    ELSE Join(SubSeq(texts, 1, Len(texts) - 1), sep) \o sep \o texts[Len(texts)]

RECURSIVE TotalLen(_)
TotalLen(texts) ==
    IF texts = <<>> THEN 0 ELSE Len(Head(texts)) + TotalLen(Tail(texts))

StartsWith(s, prefix) ==
    Len(prefix) <= Len(s) /\ SubSeq(s, 1, Len(prefix)) = prefix

EndsWith(s, suffix) ==
    Len(suffix) <= Len(s) /\ SubSeq(s, Len(s) - Len(suffix) + 1, Len(s)) = suffix

\* The separator of the _concatenate_tags_content call last made.
LastSeparator ==
    IF Len(last.args) > 1 THEN last.args[2] ELSE DefaultSeparator

C7_WidthsSumToTableWidth ==
    last.op = "get_column_widths" =>
        /\ Len(last.ret[1]) = 7
        /\ ExactSum(last.ret[1]) = table_style.table_width

\* A reportlab Table of one row with 7 columns.
IsOneRowOfSeven(row) ==
    /\ row._nrows = 1
    /\ row._ncols = 7
    /\ Len(row._cellvalues) = 1
    /\ Len(row._cellvalues[1]) = 7

FirstTitledCallJustMade ==
    /\ ncalls = 1
    /\ last.op \in {"get_full_row", "get_table_row", "_init_reduced_row"}
    /\ last.args # <<>>
    /\ Truthy(last.args[1])

\* C9: a new Event has no reduced row, so that reading it is an AttributeError;
\* after the first call of get_full_row(title), get_table_row(title) or
\* _init_reduced_row(title) it has one.
C9_ReducedRowAfterFirstCall ==
    /\ ncalls = 0 => ~HasAttr(self, "_reduced_row")
    /\ (ncalls = 0 /\ last.op = "_reduced_row") =>
        (last.exc = "AttributeError" /\ last.ret = None)
    /\ FirstTitledCallJustMade => HasAttr(self, "_reduced_row")

\* get_table_row(title) was the first call, and the reduced row is there.
C9_Witness ==
    /\ FirstTitledCallJustMade
    /\ last.op = "get_table_row"
    /\ HasAttr(self, "_reduced_row")

C12_CategoriesNeverEmpty ==
    /\ HasAttr(self, "_categories")
    /\ Len(self._categories) >= 1
    /\ HasAttr(self, "_full_row")
    /\ FieldText(self._children, "Kategorie") = "" => self._categories = <<"">>
    /\ Join(self._categories, ", ") = FieldText(self._children, "Kategorie")
    /\ \A i \in 1..Len(self._categories) : Find(self._categories[i], ", ") = 0

\* An Event built from an element without a child Kategorie.
C12_Witness ==
    /\ ncalls = 0
    /\ \A i \in 1..Len(self._children) : self._children[i].tag # "Kategorie"
    /\ self._categories = <<"">>
    /\ HasAttr(self, "_full_row")

\* C13: a get_full_row call that is given a non-empty title stores it as the
\* home title, whatever was stored before; one that is given none leaves the
\* home title as it was.  So the home title is the latest non-empty title passed.
C13_LatestTitleWins ==
    [][(ncalls' = ncalls + 1 /\ last'.op = "get_full_row") =>
        LET title == BindSubtableTitle(last'.args, last'.kwargs)
        IN  IF Truthy(title)
            THEN /\ HasAttr(self', "_subtable_title")
                 /\ self'._subtable_title = title[1]
            ELSE /\ HasAttr(self', "_subtable_title")
                        = HasAttr(self, "_subtable_title")
                 /\ HasAttr(self, "_subtable_title") =>
                        self'._subtable_title = self._subtable_title]_vars

\* get_full_row was called first with one title and last with another, which
\* is now the home title.
C13_Witness ==
    /\ ncalls >= 2
    /\ last.op = "get_full_row"
    /\ last.exc = ""
    /\ Truthy(first_title)
    /\ Truthy(last.args[1])
    /\ last.args[1] # first_title
    /\ self._subtable_title = last.args[1][1]

\* The rows of the add_event calls made on the table of this name, in the
\* order of the calls.
RECURSIVE RowsAddedTo(_, _)
RowsAddedTo(name, calls) ==
    IF calls = <<>> THEN <<>>
    ELSE LET earlier == RowsAddedTo(name, SubSeq(calls, 1, Len(calls) - 1))
             call    == calls[Len(calls)]
         IN  IF call[1] = name THEN Append(earlier, call[2]) ELSE earlier

\* C11: the elements of an EventTable are the rows added to it, one for each
\* add_event call on it and in the order of the calls, and no row added to
\* another EventTable; get_elements returns them.
C11_ElementsAreAddedRowsInOrder ==
    /\ \A name \in DOMAIN tables :
        get_elements(tables[name]) = RowsAddedTo(name, added)
    /\ last.op = "get_elements" =>
        last.ret[1] = RowsAddedTo(last.args[1], added)

\* Rows went to both tables, two different ones to the table just read, the
\* other table holding another sequence.
C11_Witness ==
    /\ last.op = "get_elements"
    /\ Len(added) = 3
    /\ Len(last.ret[1]) = 2
    /\ last.ret[1][1] # last.ret[1][2]
    /\ \E other \in DOMAIN tables :
        /\ other # last.args[1]
        /\ Len(tables[other]._elements) = 1
        /\ tables[other]._elements[1] = last.ret[1][2]

====
